---- MODULE Spec2Model ----
(***************************************************************************)
(* A model of todoist-periodic-task-updater: the tree activation engine of *)
(* todoist-periodic-task-updater.py ("v1") and of                          *)
(* todoist-periodic-task-updater-v2.py ("v2"), the run driver around each, *)
(* the staged-command queue of the Todoist client and the remote store.    *)
(*                                                                         *)
(* Strings are sequences of tokens.  The markers "(=)" and "(-)", the      *)
(* braces, the blank and the last-run constant are single tokens; any      *)
(* other token is ordinary text.                                           *)
(***************************************************************************)
EXTENDS Integers, Sequences, FiniteSets, TLC

VARIABLES
    engine,       \* "v1" or "v2": which of the two programs runs
    execute,      \* args.execute
    execute1,     \* args.execute1 (v2 only)
    periodical,   \* args.periodical_sync_sec is not None
    projects,     \* api.projects: project id -> [name, is_archived]
    store,        \* the remote task store: item id -> item
    items,        \* api.items: the client's local copy of the items
    queue,        \* api.queue: the staged commands
    pc,           \* position of the driver
    processor,    \* v1: the processor the current run_processor call runs
    rerun,        \* v2: the global rerun
    runs,         \* iterations of the driver's while loop started so far
    carried,      \* history: Len(api.queue) when the current run began
    walk,         \* history: the visits of the latest tree walk
    raised,       \* history: an exception was caught since the program began
    aborted,      \* history: the current run raised an exception
    call,         \* a function of the program called on its own, with its inputs
    ret,          \* what that call returned
    owed,         \* history: the completed children the latest walk left
                  \* completed below a due recurring node with a modifier
    closed        \* history: the items the user completed during the sleep
                  \* that preceded the current iteration

vars == <<engine, execute, execute1, periodical, projects, store, items, queue,
          pc, processor, rerun, runs, carried, walk, raised, aborted, call, ret,
          owed, closed>>

(***************************************************************************)
(* Bounds                                                                  *)
(***************************************************************************)
\* Iterations of the driver's loop that the model follows in periodic mode.
MaxRuns == 2

(***************************************************************************)
(* The driver leaves the record of a separate function call alone          *)
(***************************************************************************)
fncall == <<call, ret>>

(***************************************************************************)
(* Python values                                                           *)
(***************************************************************************)
\* Optional values: None is the empty sequence, a value x is <<x>>.
None == << >>

Some(x) == << x >>

IsNone(o) == Len(o) = 0

Get(o) == o[1]

(***************************************************************************)
(* Strings                                                                 *)
(***************************************************************************)
parallel_suffix == << "(=)" >>

serial_suffix == << "(-)" >>

LAST_RUN_CONST == << "$LastRun$" >>

\* LAST_RUN_CONST + ': %s %s' % (socket.gethostname(), now)
LastRunStamp == LAST_RUN_CONST \o << ":", "host-now" >>

\* str.endswith(suffix)
endswith(str, suffix) ==
    /\ Len(str) >= Len(suffix)
    /\ SubSeq(str, Len(str) - Len(suffix) + 1, Len(str)) = suffix

\* str.startswith(prefix)
startswith(str, prefix) ==
    /\ Len(str) >= Len(prefix)
    /\ SubSeq(str, 1, Len(prefix)) = prefix

RECURSIVE lstrip(_)
lstrip(str) ==
    IF Len(str) > 0 /\ Head(str) = " " THEN lstrip(Tail(str)) ELSE str

RECURSIVE rstrip(_)
rstrip(str) ==
    IF Len(str) > 0 /\ str[Len(str)] = " "
    THEN rstrip(SubSeq(str, 1, Len(str) - 1))
    ELSE str

\* str.strip()
strip(str) == rstrip(lstrip(str))

\* has_suffix(str, suffix): (True, str without the suffix) or (False, str)
has_suffix(str, suffix) ==
    IF endswith(str, suffix)
    THEN << TRUE, SubSeq(str, 1, Len(str) - Len(suffix)) >>
    ELSE << FALSE, str >>

\* re.match('(.*){(.*?)}', str): the greedy group takes everything up to the
\* last "{" that still has a "}" after it, the lazy group runs to the first
\* "}" after that brace; whatever follows that "}" is not part of the match.
OpenBraces(str) ==
    { i \in 1..Len(str) :
        /\ str[i] = "{"
        /\ \E j \in (i + 1)..Len(str) : str[j] = "}" }

SetMax(S) == CHOOSE x \in S : \A y \in S : y <= x

SetMin(S) == CHOOSE x \in S : \A y \in S : x <= y

\* has_delay_suffix(str): (group 2, group 1) of the match, or (None, str)
has_delay_suffix(str) ==
    IF OpenBraces(str) = {}
    THEN << None, str >>
    ELSE LET i == SetMax(OpenBraces(str))
             j == SetMin({ k \in (i + 1)..Len(str) : str[k] = "}" })
         IN  << Some(SubSeq(str, i + 1, j - 1)), SubSeq(str, 1, i - 1) >>

\* The loop of parse_item_metadata (v1): metadata is [type, delay].
RECURSIVE parse_loop(_, _)
parse_loop(name, metadata) ==
    LET par == has_suffix(name, parallel_suffix)
        ser == has_suffix(name, serial_suffix)
        del == has_delay_suffix(name)
    IN  IF par[1]
        THEN parse_loop(par[2], [metadata EXCEPT !.type = "parallel"])
        ELSE IF ser[1]
        THEN parse_loop(ser[2], [metadata EXCEPT !.type = "serial"])
        ELSE IF ~IsNone(del[1])
        THEN parse_loop(del[2], [metadata EXCEPT !.delay = del[1]])
        ELSE metadata

\* parse_item_metadata(item) (v1); type "none" stands for Python's None.
parse_item_metadata(content) ==
    parse_loop(strip(content), [type |-> "none", delay |-> None])

\* get_project_type(project_object) (v1)
get_project_type(name) ==
    IF endswith(strip(name), parallel_suffix) THEN "parallel"
    ELSE IF endswith(strip(name), serial_suffix) THEN "serial"
    ELSE "none"

\* set_parallel_or_serial(props) (v2): the delay, then the two markers on
\* what is left of the name
set_parallel_or_serial(name) ==
    LET del == has_delay_suffix(name)
    IN  [delay       |-> del[1],
         is_parallel |-> endswith(del[2], parallel_suffix),
         is_serial   |-> endswith(del[2], serial_suffix)]

(***************************************************************************)
(* Items, dates, labels                                                    *)
(***************************************************************************)
\* The run's captured "now" (set_timezone_and_now); dates are day numbers,
\* a negative date is a date string that neither strptime format parses.
now == 1

nodate_label_id == "NoDate"

\* v2: the ids of the labels whose name starts with args.next_prefix
next_label_ids == { "::Next" }

today == << "today" >>

ItemIds(its) == DOMAIN its

\* parse_due(item): raises when the date matches neither format
parse_due_raises(item) ==
    /\ ~IsNone(item.due)
    /\ Get(item.due).date < 0

\* is_recurring(item) / the is_recurring of process_item (v1)
is_recurring(item) ==
    IF IsNone(item.due) THEN FALSE ELSE Get(item.due).is_recurring

\* is_active(item) (v1), is_due(item) (v2): due <= now
is_due(item) ==
    IF IsNone(item.due) THEN FALSE ELSE Get(item.due).date <= now

(***************************************************************************)
(* The Todoist client: item.update, item.uncomplete, item.close stage a    *)
(* command on api.queue; update and uncomplete also change the local item. *)
(* A walk state st is [items, queue, failed, rerun, walk]; walk records,   *)
(* per item, what the engine decided for it (for the properties only).    *)
(***************************************************************************)
\* The record of one visit of the walk
Visit(item_mode, tree_mode, processing_mode, is_first) ==
    [visited  |-> TRUE,
     mode     |-> item_mode,
     tree     |-> tree_mode,
     inherits |-> processing_mode,
     is_first |-> is_first]

Unvisited ==
    [visited  |-> FALSE,
     mode     |-> "none",
     tree     |-> "none",
     inherits |-> "none",
     is_first |-> FALSE]

Cmd(type, id, arg) == [type |-> type, id |-> id, arg |-> arg]

\* item.update(labels=labels)
update_labels(st, id, labels) ==
    [st EXCEPT !.items[id].labels = labels,
               !.queue = Append(@, Cmd("update_labels", id, labels))]

\* item.update(due=due)
update_due(st, id, due) ==
    [st EXCEPT !.items[id].due = due,
               !.queue = Append(@, Cmd("update_due", id, due))]

\* item.update(content=content)
update_content(st, id, content) ==
    [st EXCEPT !.items[id].content = content,
               !.queue = Append(@, Cmd("update_content", id, content))]

\* item.uncomplete()
item_uncomplete(st, id) ==
    [st EXCEPT !.items[id].checked = 0,
               !.queue = Append(@, Cmd("item_uncomplete", id, None))]

\* item.close()
item_close(st, id) ==
    [st EXCEPT !.queue = Append(@, Cmd("item_close", id, None))]

(***************************************************************************)
(* The store's side of api.commit(): the effect of one staged command.     *)
(***************************************************************************)
\* The store resolves a due string to a date: "today" is today, any other
\* expression a later day.
ResolveDue(due) ==
    IF IsNone(due) THEN None
    ELSE Some([date         |-> IF Get(due).string = today THEN now ELSE now + 1,
               is_recurring |-> FALSE,
               string       |-> Get(due).string])

\* Closing a recurring item moves it to its next occurrence, a date after
\* now; closing any other item completes it.
CloseItem(item) ==
    IF is_recurring(item)
    THEN [item EXCEPT !.due = Some([Get(item.due) EXCEPT !.date = now + 1])]
    ELSE [item EXCEPT !.checked = 1, !.date_completed = TRUE]

ApplyCmd(its, cmd) ==
    IF cmd.type = "update_labels" THEN [its EXCEPT ![cmd.id].labels = cmd.arg]
    ELSE IF cmd.type = "update_due"
    THEN [its EXCEPT ![cmd.id].due = ResolveDue(cmd.arg)]
    ELSE IF cmd.type = "update_content"
    THEN [its EXCEPT ![cmd.id].content = cmd.arg]
    ELSE IF cmd.type = "item_uncomplete"
    THEN [its EXCEPT ![cmd.id].checked = 0, ![cmd.id].date_completed = FALSE]
    ELSE [its EXCEPT ![cmd.id] = CloseItem(its[cmd.id])]

RECURSIVE ApplyQueue(_, _)
ApplyQueue(its, q) ==
    IF Len(q) = 0 THEN its ELSE ApplyQueue(ApplyCmd(its, Head(q)), Tail(q))

(***************************************************************************)
(* Shared helpers of both engines                                          *)
(***************************************************************************)
\* sorted(api.items.all(lambda x: project_id == project.id), key=child_order)
project_items(its, project_id) ==
    SortSeq(SelectSeq([i \in 1..Cardinality(ItemIds(its)) |-> i],
                      LAMBDA i : its[i].project_id = project_id),
            LAMBDA a, b : its[a].child_order < its[b].child_order)

\* Mutant: the label is added without the test for its presence.
add_nodate_label_unguarded(st, id) ==
    update_labels(st, id, st.items[id].labels \cup { nodate_label_id })

\* add_nodate_label(item)
add_nodate_label(st, id) ==
    IF nodate_label_id \in st.items[id].labels THEN st
    ELSE update_labels(st, id, st.items[id].labels \cup { nodate_label_id })

\* Mutant: the blocking label is never removed.
remove_nodate_label_skipped(st, id) == st

\* Mutant: removing the blocking label drops every label of the item.
remove_nodate_label_clears(st, id) ==
    IF nodate_label_id \notin st.items[id].labels THEN st
    ELSE update_labels(st, id, {})

\* remove_nodate_label(item)
remove_nodate_label(st, id) ==
    IF nodate_label_id \notin st.items[id].labels THEN st
    ELSE update_labels(st, id, st.items[id].labels \ { nodate_label_id })

(***************************************************************************)
(* The v1 engine (todoist-periodic-task-updater.py)                        *)
(***************************************************************************)
\* Mutant: the completed children are always included.
get_subitems_v1_with_completed(its, itemlist, parent_id, include_completed) ==
    SelectSeq(itemlist, LAMBDA i : its[i].parent_id = parent_id)

\* get_subitems(items, parent_item, include_completed) (v1); parent 0 is None
get_subitems_v1(its, itemlist, parent_id, include_completed) ==
    SelectSeq(itemlist,
              LAMBDA i : /\ (include_completed \/ ~its[i].date_completed)
                         /\ its[i].parent_id = parent_id)

\* Mutant: the due date assigned is always the default.
set_date_v1_always_today(st, id, metadata) ==
    IF IsNone(st.items[id].due)
    THEN update_due(st, id, Some([string |-> today]))
    ELSE st

\* Mutant: the due date is assigned whether or not the item has one.
set_date_v1_overwrites(st, id, metadata) ==
    update_due(st, id,
        Some([string |-> IF ~IsNone(metadata.delay)
                         THEN Get(metadata.delay) ELSE today]))

\* set_date(item, metadata) (v1)
set_date_v1(st, id, metadata) ==
    IF IsNone(st.items[id].due)
    THEN update_due(st, id,
             Some([string |-> IF ~IsNone(metadata.delay)
                              THEN Get(metadata.delay) ELSE today]))
    ELSE st

\* uncomplete(item) (v1)
uncomplete_v1(st, id) ==
    IF st.items[id].date_completed
    THEN LET s1 == item_uncomplete(st, id)
         IN  IF ~IsNone(s1.items[id].due) THEN update_due(s1, id, None) ELSE s1
    ELSE st

\* Mutant: the serial mode activates every sibling, not only the first.
tree_processing_mode_any_sibling(processing_mode, is_first, is_active_recurring, type) ==
    IF \/ processing_mode = "serial"
       \/ processing_mode = "parallel"
       \/ is_active_recurring
    THEN "activate"
    ELSE IF \/ processing_mode = "inactive"
            \/ type # "none"
    THEN "take"
    ELSE "none"

\* tree_prcessing_mode of process_item (v1)
tree_processing_mode(processing_mode, is_first, is_active_recurring, type) ==
    IF \/ (processing_mode = "serial" /\ is_first)
       \/ processing_mode = "parallel"
       \/ is_active_recurring
    THEN "activate"
    ELSE IF \/ processing_mode = "serial"
            \/ processing_mode = "inactive"
            \/ type # "none"
    THEN "take"
    ELSE "none"

\* Mutant: a leaf of an activated tree is taken like an inner node.
item_processing_mode_never_activates(tree_mode, is_considered_leaf) ==
    IF tree_mode = "activate" \/ tree_mode = "take" THEN "take"
    ELSE "none"

\* item_processing_mode of process_item (v1)
item_processing_mode(tree_mode, is_considered_leaf) ==
    IF tree_mode = "activate" /\ is_considered_leaf THEN "activate"
    ELSE IF tree_mode = "activate" \/ tree_mode = "take" THEN "take"
    ELSE "none"

\* child_processing_mode of process_item (v1)
child_processing_mode(tree_mode, type) ==
    IF type = "none" THEN "none"
    ELSE IF tree_mode = "take" THEN "inactive"
    ELSE type

\* Mutant: an item counts as a leaf only if its content carries no marker
\* (the test left commented out at the end of line 305).
verdict_v1_leaf_needs_no_type(its, itemlist, id, processing_mode, is_first) ==
    LET item     == its[id]
        recur    == is_recurring(item)
        active   == recur /\ is_due(item)
        children == get_subitems_v1(its, itemlist, id, active)
        metadata == parse_item_metadata(item.content)
        tree     == tree_processing_mode(processing_mode, is_first, active,
                                         metadata.type)
    IN  [raises              |-> recur /\ parse_due_raises(item),
         is_active_recurring |-> active,
         child_items         |-> children,
         metadata            |-> metadata,
         tree_mode           |-> tree,
         item_mode           |-> item_processing_mode(
                                     tree,
                                     Len(children) = 0 /\ metadata.type = "none"),
         child_mode          |-> child_processing_mode(tree, metadata.type)]

\* The verdict process_item (v1) computes for an item before it mutates it.
verdict_v1(its, itemlist, id, processing_mode, is_first) ==
    LET item     == its[id]
        recur    == is_recurring(item)
        active   == recur /\ is_due(item)
        children == get_subitems_v1(its, itemlist, id, active)
        metadata == parse_item_metadata(item.content)
        tree     == tree_processing_mode(processing_mode, is_first, active,
                                         metadata.type)
    IN  [raises              |-> recur /\ parse_due_raises(item),
         is_active_recurring |-> active,
         child_items         |-> children,
         metadata            |-> metadata,
         tree_mode           |-> tree,
         item_mode           |-> item_processing_mode(tree, Len(children) = 0),
         child_mode          |-> child_processing_mode(tree, metadata.type)]

\* The mutations of process_item (v1): the branch on item_processing_mode
apply_item_v1(st, id, v) ==
    IF v.item_mode = "activate"
    THEN remove_nodate_label(
             set_date_v1(uncomplete_v1(st, id), id, v.metadata), id)
    ELSE IF v.item_mode = "take"
    THEN LET s1 == uncomplete_v1(st, id)
             s2 == IF IsNone(s1.items[id].due)
                   THEN add_nodate_label(s1, id) ELSE s1
         IN  IF v.is_active_recurring THEN item_close(s2, id) ELSE s2
    ELSE st

RECURSIVE process_item_v1(_, _, _, _, _)
RECURSIVE process_children_v1(_, _, _, _, _)
\* process_item(item, processing_mode, is_first, items) (v1)
process_item_v1(st, itemlist, id, processing_mode, is_first) ==
    IF st.failed THEN st
    ELSE LET v == verdict_v1(st.items, itemlist, id, processing_mode, is_first)
         IN  IF v.raises THEN [st EXCEPT !.failed = TRUE]
             ELSE process_children_v1(
                      apply_item_v1(
                          [st EXCEPT !.walk[id] =
                              Visit(v.item_mode, v.tree_mode, processing_mode,
                                    is_first)],
                          id, v),
                      itemlist, v.child_items, 1, v.child_mode)

\* for idx, child in enumerate(child_items): process_item(child, ...)
process_children_v1(st, itemlist, child_items, k, child_mode) ==
    IF k > Len(child_items) THEN st
    ELSE process_children_v1(
             process_item_v1(st, itemlist, child_items[k], child_mode, k = 1),
             itemlist, child_items, k + 1, child_mode)

\* Mutant: an archived project is walked like any other.
process_project_v1_ignores_archived(st, prjs, project_id) ==
    IF st.failed THEN st
    ELSE LET itemlist == project_items(st.items, project_id)
         IN  process_children_v1(st, itemlist,
                 get_subitems_v1(st.items, itemlist, 0, FALSE), 1,
                 get_project_type(prjs[project_id].name))

\* process_project(project) (v1)
process_project_v1(st, prjs, project_id) ==
    IF st.failed \/ prjs[project_id].is_archived THEN st
    ELSE LET itemlist == project_items(st.items, project_id)
         IN  process_children_v1(st, itemlist,
                 get_subitems_v1(st.items, itemlist, 0, FALSE), 1,
                 get_project_type(prjs[project_id].name))

\* OldStyleProcessor.process: for project in api.projects.all()
RECURSIVE OldStyleProcessor(_, _, _)
OldStyleProcessor(st, prjs, k) ==
    IF k > Cardinality(DOMAIN prjs) THEN st
    ELSE OldStyleProcessor(process_project_v1(st, prjs, k), prjs, k + 1)

\* Mutant: the content is stamped without the test of its prefix.
last_run_item_unconditional(st, id) == update_content(st, id, LastRunStamp)

\* LastRunUpdaterProcessor's process() of one top-level item
last_run_item(st, id) ==
    IF startswith(st.items[id].content, LAST_RUN_CONST)
    THEN update_content(st, id, LastRunStamp)
    ELSE st

RECURSIVE last_run_items(_, _, _)
last_run_items(st, top_level_items, k) ==
    IF k > Len(top_level_items) THEN st
    ELSE last_run_items(last_run_item(st, top_level_items[k]),
                        top_level_items, k + 1)

\* Processor.process_project_recursively under LastRunUpdaterProcessor:
\* process_subtasks is False, so only the top-level items are visited
process_project_recursively(st, prjs, project_id) ==
    IF prjs[project_id].is_archived THEN st
    ELSE LET itemlist == project_items(st.items, project_id)
         IN  last_run_items(st,
                 get_subitems_v1(st.items, itemlist, 0, FALSE), 1)

\* Processor.process under LastRunUpdaterProcessor
RECURSIVE LastRunUpdaterProcessor(_, _, _)
LastRunUpdaterProcessor(st, prjs, k) ==
    IF k > Cardinality(DOMAIN prjs) THEN st
    ELSE LastRunUpdaterProcessor(process_project_recursively(st, prjs, k),
                                 prjs, k + 1)

(***************************************************************************)
(* The v2 engine (todoist-periodic-task-updater-v2.py)                     *)
(***************************************************************************)
\* Mutant: the completed items are returned among the active ones.
get_subitems_v2_all_active(its, itemlist, parent_id) ==
    << << >>, SelectSeq(itemlist, LAMBDA i : its[i].parent_id = parent_id) >>

\* get_subitems(items, parent_item) (v2): (completed items, active items)
get_subitems_v2(its, itemlist, parent_id) ==
    << SelectSeq(itemlist, LAMBDA i : /\ its[i].parent_id = parent_id
                                      /\ its[i].checked # 0),
       SelectSeq(itemlist, LAMBDA i : /\ its[i].parent_id = parent_id
                                      /\ its[i].checked = 0) >>

\* Mutant: the due date is assigned whatever labels the item carries.
set_date_v2_ignores_next(st, id, props) ==
    IF IsNone(st.items[id].due)
    THEN update_due(st, id,
             Some([string |-> IF ~IsNone(props.delay)
                              THEN Get(props.delay) ELSE today]))
    ELSE st

\* set_date(item, props, debuglog) (v2)
set_date_v2(st, id, props) ==
    IF st.items[id].labels \cap next_label_ids # {} THEN st
    ELSE IF IsNone(st.items[id].due)
    THEN update_due(st, id,
             Some([string |-> IF ~IsNone(props.delay)
                              THEN Get(props.delay) ELSE today]))
    ELSE st

\* own_item(item, debuglog)
own_item(st, id) ==
    IF IsNone(st.items[id].due) THEN add_nodate_label(st, id) ELSE st

\* activate_item(item, props, debuglog)
activate_item(st, id, props) ==
    remove_nodate_label(set_date_v2(st, id, props), id)

\* uncomplete_item(item, debuglog)
uncomplete_item(st, id) ==
    IF st.items[id].date_completed
    THEN LET s1 == item_uncomplete(st, id)
         IN  IF ~IsNone(s1.items[id].due) THEN update_due(s1, id, None) ELSE s1
    ELSE st

\* complete_item(item, debuglog)
complete_item(st, id) ==
    IF ~st.items[id].date_completed THEN item_close(st, id) ELSE st

\* Mutant: the condition that is commented out after the assignment is in
\* force.
recurring_reactivation_enabled(props) ==
    props.is_recurring /\ props.is_due /\ (props.is_parallel \/ props.is_serial)

\* props.recurring_reactivation of process_item (v2): the assignment is
\* None, the condition that follows it is commented out
recurring_reactivation(props) == FALSE

\* The props of a project (process_project, v2)
project_props(name) ==
    LET ps == set_parallel_or_serial(strip(name))
    IN  [is_parallel           |-> ps.is_parallel,
         is_serial             |-> ps.is_serial,
         delay                 |-> ps.delay,
         owned                 |-> FALSE,
         suppress_tree_due_now |-> FALSE]

\* The props process_item (v2) computes for an item from its parent's props
item_props(its, itemlist, parentprops, id, idx) ==
    LET item     == its[id]
        ps       == set_parallel_or_serial(item.content)
        subitems == get_subitems_v2(its, itemlist, id)
        first    == idx = 0
        due_now  == /\ ~parentprops.suppress_tree_due_now
                    /\ (parentprops.is_parallel \/ parentprops.is_serial)
        suppress == due_now /\ (parentprops.is_serial /\ ~first)
    IN  [is_parallel           |-> ps.is_parallel,
         is_serial             |-> ps.is_serial,
         delay                 |-> ps.delay,
         first                 |-> first,
         completed_subitems    |-> subitems[1],
         active_subitems       |-> subitems[2],
         owned                 |-> \/ parentprops.owned
                                   \/ ps.is_parallel
                                   \/ ps.is_serial,
         is_recurring          |-> is_recurring(item),
         raises                |-> parse_due_raises(item),
         is_due                |-> is_due(item),
         due_now               |-> due_now,
         suppress_tree_due_now |-> suppress,
         item_due_now          |-> /\ due_now
                                   /\ ~suppress
                                   /\ ~((ps.is_parallel \/ ps.is_serial)
                                        /\ Len(subitems[2]) > 0)]

RECURSIVE reactivate_completed_subtree(_, _, _)
RECURSIVE reactivate_completed_items(_, _, _, _)
\* reactivate_completed_subtree(items, parentprops, parentdebuglog, item)
reactivate_completed_subtree(st, itemlist, id) ==
    LET s1 == uncomplete_item(st, id)
    IN  reactivate_completed_items(s1, itemlist,
            get_subitems_v2(s1.items, itemlist, id)[1], 1)

\* for item in completed_subitems: reactivate_completed_subtree(...)
reactivate_completed_items(st, itemlist, completed_subitems, k) ==
    IF k > Len(completed_subitems) THEN st
    ELSE reactivate_completed_items(
             reactivate_completed_subtree(st, itemlist, completed_subitems[k]),
             itemlist, completed_subitems, k + 1)

\* Mutant: the item is activated whenever it is due now, suppressed or not.
disposition_v2_ignores_suppress(props) ==
    IF props.due_now
       /\ ~((props.is_parallel \/ props.is_serial)
            /\ Len(props.active_subitems) > 0)
    THEN "activate"
    ELSE IF props.owned THEN "take"
    ELSE "none"

\* The branch process_item (v2) takes for the item, in v1's words
disposition_v2(props) ==
    IF props.item_due_now THEN "activate"
    ELSE IF props.owned THEN "take"
    ELSE "none"

\* What the item's props say of its subtree, in v1's words
tree_v2(props) ==
    IF props.suppress_tree_due_now THEN "take"
    ELSE IF props.due_now THEN "activate"
    ELSE "none"

\* What the parent's props hand to a child, in v1's words
inherited_v2(parentprops) ==
    IF parentprops.suppress_tree_due_now THEN "inactive"
    ELSE IF parentprops.is_parallel THEN "parallel"
    ELSE IF parentprops.is_serial THEN "serial"
    ELSE IF parentprops.owned THEN "owned"
    ELSE "none"

\* The mutations of process_item (v2) on the item itself
apply_item_v2(st, id, props) ==
    LET s1 == IF disposition_v2(props) = "activate"
              THEN activate_item(st, id, props)
              ELSE IF disposition_v2(props) = "take" THEN own_item(st, id)
              ELSE st
    IN  IF startswith(s1.items[id].content, LAST_RUN_CONST)
        THEN update_content(s1, id, LastRunStamp)
        ELSE s1

RECURSIVE process_item_v2(_, _, _, _, _)
RECURSIVE process_items_v2(_, _, _, _, _)
\* process_item(items, parentprops, parentdebuglog, item, idx) (v2)
process_item_v2(st, itemlist, parentprops, id, idx) ==
    IF st.failed THEN st
    ELSE LET props == item_props(st.items, itemlist, parentprops, id, idx)
         IN  IF props.raises THEN [st EXCEPT !.failed = TRUE]
             ELSE IF recurring_reactivation(props)
             THEN [reactivate_completed_items(complete_item(st, id), itemlist,
                       props.completed_subitems, 1) EXCEPT !.rerun = TRUE]
             ELSE process_items_v2(
                      apply_item_v2(
                          [st EXCEPT !.walk[id] =
                              Visit(disposition_v2(props), tree_v2(props),
                                    inherited_v2(parentprops), props.first)],
                          id, props),
                      itemlist, props, props.active_subitems, 1)

\* for idx, item in enumerate(active_subitems): process_item(...)
process_items_v2(st, itemlist, parentprops, active_items, k) ==
    IF k > Len(active_items) THEN st
    ELSE process_items_v2(
             process_item_v2(st, itemlist, parentprops, active_items[k], k - 1),
             itemlist, parentprops, active_items, k + 1)

\* process_project(api, parentdebuglog, project) (v2)
process_project_v2(st, prjs, project_id) ==
    IF st.failed \/ prjs[project_id].is_archived THEN st
    ELSE LET itemlist == project_items(st.items, project_id)
         IN  process_items_v2(st, itemlist,
                 project_props(prjs[project_id].name),
                 get_subitems_v2(st.items, itemlist, 0)[2], 1)

\* for project in api.projects.all(): process_project(api, debuglog, project)
RECURSIVE process_projects_v2(_, _, _)
process_projects_v2(st, prjs, k) ==
    IF k > Cardinality(DOMAIN prjs) THEN st
    ELSE process_projects_v2(process_project_v2(st, prjs, k), prjs, k + 1)

(***************************************************************************)
(* The run driver: main's while loop and run_processor                     *)
(***************************************************************************)
args == <<engine, execute, execute1, periodical>>

\* The walk record is kept from the tree walk of an iteration until the
\* next iteration begins (v1's second processor decides no dispositions).
FirstProcessor == engine = "v2" \/ processor = "OldStyleProcessor"

NoWalk == [i \in DOMAIN store |-> Unvisited]

WalkStart ==
    [items  |-> items,
     queue  |-> queue,
     failed |-> FALSE,
     rerun  |-> rerun,
     walk   |-> walk]

\* The completed children of the due recurring nodes with a serial or
\* parallel marker that the walk visited, less those it uncompleted
StillCompleted(st) ==
    { c \in DOMAIN store :
        /\ store[c].date_completed
        /\ store[c].parent_id # 0
        /\ st.walk[store[c].parent_id].visited
        /\ is_recurring(store[store[c].parent_id])
        /\ is_due(store[store[c].parent_id])
        /\ IF engine = "v1"
           THEN parse_item_metadata(store[store[c].parent_id].content).type
                    # "none"
           ELSE LET ps == set_parallel_or_serial(
                              store[store[c].parent_id].content)
                IN  ps.is_parallel \/ ps.is_serial
        /\ ~\E k \in (carried + 1)..Len(st.queue) :
               st.queue[k].type = "item_uncomplete" /\ st.queue[k].id = c }

\* What a walk leaves behind: an exception goes to the except clause, a
\* completed walk to the test of len(api.queue)
Walked(st) ==
    /\ items' = st.items
    /\ queue' = st.queue
    /\ rerun' = st.rerun
    /\ walk' = st.walk
    /\ pc' = IF st.failed THEN "caught" ELSE "queued"
    /\ raised' = (raised \/ st.failed)
    /\ aborted' = st.failed
    /\ owed' = IF FirstProcessor THEN StillCompleted(st) ELSE owed
    /\ UNCHANGED fncall
    /\ UNCHANGED <<args, projects, store, processor, runs, carried, closed>>

\* api.sync() and set_timezone_and_now: the client's items are the store's
Sync ==
    /\ pc = "sync"
    /\ items' = store
    /\ carried' = Len(queue)
    /\ rerun' = FALSE
    /\ pc' = "process"
    /\ walk' = IF FirstProcessor THEN NoWalk ELSE walk
    /\ aborted' = FALSE
    /\ UNCHANGED <<args, projects, store, queue, processor, runs, raised, fncall, owed, closed>>

\* api.sync() raises
SyncFails ==
    /\ pc = "sync"
    /\ carried' = Len(queue)
    /\ rerun' = FALSE
    /\ pc' = "caught"
    /\ walk' = IF FirstProcessor THEN NoWalk ELSE walk
    /\ raised' = TRUE
    /\ aborted' = TRUE
    /\ UNCHANGED <<args, projects, store, items, queue, processor, runs, fncall, owed, closed>>

\* v1: processor(api).process() with OldStyleProcessor
ProcessOldStyle ==
    /\ pc = "process"
    /\ engine = "v1"
    /\ processor = "OldStyleProcessor"
    /\ Walked(OldStyleProcessor(WalkStart, projects, 1))

\* v1: processor(api).process() with LastRunUpdaterProcessor
ProcessLastRun ==
    /\ pc = "process"
    /\ engine = "v1"
    /\ processor = "LastRunUpdaterProcessor"
    /\ Walked(LastRunUpdaterProcessor(WalkStart, projects, 1))

\* v2: for project in api.projects.all(): process_project(...)
ProcessV2 ==
    /\ pc = "process"
    /\ engine = "v2"
    /\ Walked(process_projects_v2(WalkStart, projects, 1))

\* Mutant: the commit does not look at the execute flags.
commit_wanted_ignores_execute == Len(queue) > 0

\* if len(api.queue): if args.execute (v2: or args.execute1)
commit_wanted == Len(queue) > 0 /\ (execute \/ execute1)

\* api.commit(): the store applies the staged commands, the queue is emptied.
\* v2: "if args.execute1: rerun = False" and "if rerun: continue"
Commit ==
    /\ pc = "queued"
    /\ commit_wanted
    /\ store' = ApplyQueue(store, queue)
    /\ queue' = << >>
    /\ rerun' = IF execute1 THEN FALSE ELSE rerun
    /\ pc' = IF rerun' THEN "sync" ELSE "end_run"
    /\ UNCHANGED <<args, projects, items, processor, runs, carried, walk,
                   raised, aborted, fncall, owed, closed>>

\* api.commit() raises: the request either never reached the store or was
\* applied there before the failure; the queue is not emptied
CommitFails ==
    /\ pc = "queued"
    /\ commit_wanted
    /\ \E applied \in BOOLEAN :
           store' = IF applied THEN ApplyQueue(store, queue) ELSE store
    /\ pc' = "caught"
    /\ raised' = TRUE
    /\ aborted' = TRUE
    /\ UNCHANGED <<args, projects, items, queue, processor, rerun, runs,
                   carried, walk, fncall, owed, closed>>

\* nothing queued, or no execute flag: no commit
SkipCommit ==
    /\ pc = "queued"
    /\ ~commit_wanted
    /\ pc' = "end_run"
    /\ UNCHANGED <<args, projects, store, items, queue, processor, rerun, runs,
                   carried, walk, raised, aborted, fncall, owed, closed>>

\* Mutant: the handler lets the exception end the process.
Caught_terminates ==
    /\ pc = "caught"
    /\ pc' = "done"
    /\ UNCHANGED <<args, projects, store, items, queue, processor, rerun, runs,
                   carried, walk, raised, aborted, fncall, owed, closed>>

\* except Exception as e: logging.exception(...)
Caught ==
    /\ pc = "caught"
    /\ pc' = "end_run"
    /\ UNCHANGED <<args, projects, store, items, queue, processor, rerun, runs,
                   carried, walk, raised, aborted, fncall, owed, closed>>

\* v1: run_processor(OldStyleProcessor) returned, run_processor(
\* LastRunUpdaterProcessor) is called
NextProcessor ==
    /\ pc = "end_run"
    /\ engine = "v1"
    /\ processor = "OldStyleProcessor"
    /\ processor' = "LastRunUpdaterProcessor"
    /\ pc' = "sync"
    /\ UNCHANGED <<args, projects, store, items, queue, rerun, runs, carried,
                   walk, raised, aborted, fncall, owed, closed>>

LastProcessor == engine = "v2" \/ processor = "LastRunUpdaterProcessor"

\* if args.periodical_sync_sec is None: break
Break ==
    /\ pc = "end_run"
    /\ LastProcessor
    /\ ~periodical
    /\ pc' = "done"
    /\ UNCHANGED <<args, projects, store, items, queue, processor, rerun, runs,
                   carried, walk, raised, aborted, fncall, owed, closed>>

\* time.sleep(args.periodical_sync_sec), then the next iteration of the loop
Sleep ==
    /\ pc = "end_run"
    /\ LastProcessor
    /\ periodical
    /\ runs < MaxRuns
    /\ runs' = runs + 1
    /\ processor' = IF engine = "v1" THEN "OldStyleProcessor" ELSE processor
    /\ pc' = "sync"
    /\ closed' = {}
    /\ UNCHANGED <<args, projects, store, items, queue, rerun, carried, walk,
                   raised, aborted, fncall, owed>>

Next ==
    \/ Sync
    \/ SyncFails
    \/ ProcessOldStyle
    \/ ProcessLastRun
    \/ ProcessV2
    \/ Commit
    \/ CommitFails
    \/ SkipCommit
    \/ Caught
    \/ NextProcessor
    \/ Break
    \/ Sleep

(***************************************************************************)
(* Inputs: the forests the store holds when the program starts             *)
(***************************************************************************)
Item(project_id, parent_id, child_order, content, completed, due, labels) ==
    [project_id     |-> project_id,
     parent_id      |-> parent_id,
     child_order    |-> child_order,
     content        |-> content,
     checked        |-> IF completed THEN 1 ELSE 0,
     date_completed |-> completed,
     due            |-> due,
     labels         |-> labels]

Project(name, is_archived) == [name |-> name, is_archived |-> is_archived]

\* A due date as the store holds it
Due(date, recurring) ==
    Some([date |-> date, is_recurring |-> recurring, string |-> << "x" >>])

Plain == << "a" >>

Serial == << "a", "(-)" >>

Parallel == << "a", "(=)" >>

Delayed == << "a", "{", "d", "}" >>

DelayedParallel == << "a", "{", "d", "}", "(=)" >>

\* What an item can look like besides its place in the tree
Profile(content, completed, due, labels) ==
    [content |-> content, completed |-> completed, due |-> due, labels |-> labels]

Default == Profile(Plain, FALSE, None, {})

Place(project_id, parent_id, child_order, p) ==
    Item(project_id, parent_id, child_order, p.content, p.completed, p.due,
         p.labels)

\* One project; a node P with three children A, B, C (items 3 to 6) below a
\* node G (item 2), with an item X (item 1) that precedes G among the
\* top-level items or precedes P among the children of G.
ModeForests ==
    { [projects |-> << Project(name, FALSE) >>,
       store    |-> << IF xtop THEN Place(1, 0, 1, x) ELSE Place(1, 2, 1, x),
                       Place(1, 0, 2, Profile(g, FALSE, None, {})),
                       Place(1, 2, 2, Profile(p, FALSE, pdue, {})),
                       Place(1, 3, 1, Profile(Plain, FALSE, None, alabels)),
                       Place(1, 3, 2, b),
                       Place(1, 3, 3, Default) >>] :
        name \in { << "p" >>, << "p", "(-)" >>, << "p", "(=)", " " >> },
        xtop \in BOOLEAN,
        x \in { Default, Profile(Plain, TRUE, None, {}) },
        g \in { Plain, Serial, Parallel },
        p \in { Serial, Parallel },
        pdue \in { None },
        alabels \in { {}, { nodate_label_id },
                      next_label_ids \cup { nodate_label_id } },
        b \in { Default,
                Profile(Plain, FALSE, None, { nodate_label_id }),
                Profile(Plain, FALSE, Due(1, FALSE), { nodate_label_id }),
                Profile(Plain, FALSE, Due(1, TRUE), {}),
                Profile(Delayed, FALSE, Due(2, FALSE), { nodate_label_id }),
                Profile(Serial, FALSE, None, {}) } }

\* One project; a recurring item R (item 2) with children c1, c2 (items 3,
\* 4) and a grandchild below c1 (item 5); R is a top-level item after Q
\* (item 1) or a child of Q.
RecurForests ==
    { [projects |-> << Project(name, FALSE) >>,
       store    |-> << Place(1, 0, 1, q),
                       IF rtop THEN Place(1, 0, 2, Profile(r, rdone, rdue, {}))
                       ELSE Place(1, 1, 1, Profile(r, rdone, rdue, {})),
                       Place(1, 2, 1, Profile(Plain, c1done, None, {})),
                       Place(1, 2, 2, Profile(Plain, c2done, None, {})),
                       Place(1, 3, 1, Profile(Plain, gdone, None, {})) >>] :
        name \in { << "p" >>, << "p", "(-)" >> },
        q \in { Default, Profile(Plain, FALSE, Due(0, TRUE), {}) },
        rtop \in BOOLEAN,
        r \in { Plain, Serial, Parallel },
        rdone \in BOOLEAN,
        rdue \in { Due(1, TRUE), Due(2, TRUE) },
        c1done \in BOOLEAN,
        c2done \in BOOLEAN,
        gdone \in BOOLEAN }

\* Two projects, each of which may be archived.  Project 1 holds item 1, which
\* may be the last-run item, and its child item 2, whose due date may be
\* malformed; project 2 holds item 3 and item 4, its child or next sibling.
MiscForests ==
    { [projects |-> << Project(<< "p", "(-)" >>, arch1),
                       Project(name2, arch2) >>,
       store    |-> << Place(1, 0, 1, Profile(c1, FALSE, None, {})),
                       Place(1, 1, 1, Profile(Plain, FALSE, due2, {})),
                       Place(2, 0, 1, Profile(c3, FALSE, None, {})),
                       IF top4 THEN Place(2, 0, 2, Profile(c4, FALSE, None, {}))
                       ELSE Place(2, 3, 1, Profile(c4, FALSE, None, {})) >>] :
        arch1 \in BOOLEAN,
        arch2 \in BOOLEAN,
        name2 \in { << "q" >>, << "q", "(=)" >> },
        c1 \in { Plain, LAST_RUN_CONST, LastRunStamp },
        due2 \in { None, Due(-1, FALSE), Due(-1, TRUE) },
        c3 \in { Plain, Serial },
        c4 \in { Plain, Delayed, DelayedParallel, LAST_RUN_CONST },
        top4 \in BOOLEAN }

\* One project; a serial item S (item 1) with children X and C (items 2, 3),
\* an item D (item 4) below C and an item E (item 5) below D; C and D may
\* carry a modifier of their own.
DeepForests ==
    { [projects |-> << Project(name, FALSE) >>,
       store    |-> << Place(1, 0, 1, Profile(Serial, FALSE, None, {})),
                       Place(1, 1, 1, Default),
                       Place(1, 1, 2, Profile(c, FALSE, None, {})),
                       Place(1, 3, 1, Profile(d, FALSE, None, {})),
                       Place(1, 4, 1, Profile(Plain, FALSE, None, elabels)) >>] :
        name \in { << "p" >>, << "p", "(=)" >> },
        c \in { Plain, Serial, Parallel },
        d \in { Plain, Serial, Parallel },
        elabels \in { {}, { nodate_label_id } } }

\* One project; a serial item S (item 1) with children A, B, C (items 2 to
\* 4), of which the first ones may be completed already, and an item D
\* (item 5) below B or below C.
ProgressForests ==
    { [projects |-> << Project(name, FALSE) >>,
       store    |-> << Place(1, 0, 1, Profile(Serial, FALSE, None, {})),
                       Place(1, 1, 1, Profile(Plain, done >= 1, None, {})),
                       Place(1, 1, 2, Profile(Plain, done >= 2, None,
                                              IF done >= 2 THEN {} ELSE blabels)),
                       Place(1, 1, 3, Default),
                       Place(1, dparent, 1, Default) >>] :
        name \in { << "p" >>, << "p", "(=)" >> },
        done \in { 0, 1, 2 },
        blabels \in { {}, next_label_ids },
        dparent \in { 3, 4 } }

Forests ==
    ModeForests \cup RecurForests \cup MiscForests \cup DeepForests
        \cup ProgressForests

Init ==
    /\ engine \in { "v1", "v2" }
    /\ execute \in BOOLEAN
    /\ execute1 \in IF engine = "v2" /\ ~execute THEN BOOLEAN ELSE { FALSE }
    /\ periodical \in BOOLEAN
    /\ \E f \in Forests :
           /\ projects = f.projects
           /\ store = f.store
    /\ items = store
    /\ queue = << >>
    /\ pc = "sync"
    /\ processor = IF engine = "v1" THEN "OldStyleProcessor" ELSE "main"
    /\ rerun = FALSE
    /\ runs = 1
    /\ carried = 0
    /\ walk = NoWalk
    /\ raised = FALSE
    /\ aborted = FALSE
    /\ call = [fn |-> "main"]
    /\ ret = [done |-> FALSE]
    /\ owed = {}
    /\ closed = {}

Spec == Init /\ [][Next]_vars

\* The forests main is followed on to its end: a top-level recurring item
\* with a completed second child, and two projects of which the second is
\* archived and the first may be, with an item whose date may be malformed
MainForests ==
    { f \in RecurForests :
        /\ f.projects[1].name = << "p" >>
        /\ f.store[1] = Place(1, 0, 1, Default)
        /\ f.store[2].parent_id = 0
        /\ ~f.store[2].date_completed
        /\ f.store[4].date_completed
        /\ f.store[5].date_completed }
    \cup
    { f \in MiscForests :
        /\ f.projects[2].is_archived
        /\ f.projects[2].name = << "q" >>
        /\ f.store[1].content = Plain
        /\ f.store[3].content = Plain
        /\ f.store[4].content = Plain
        /\ f.store[4].parent_id = 0 }

\* main of v2 on its own
MainInit ==
    /\ Init
    /\ engine = "v2"
    /\ \E f \in MainForests :
           /\ projects = f.projects
           /\ store = f.store

MainNext ==
    \/ Sync
    \/ SyncFails
    \/ ProcessV2
    \/ Commit
    \/ CommitFails
    \/ SkipCommit
    \/ Caught
    \/ Break
    \/ Sleep

\* The program is sequential: a statement that can run does run, and the
\* calls to the store return (with a result or an exception).  The walk of
\* the projects is a finite recursion over the items: it does not stay at
\* its start for ever.
MainFairness ==
    /\ WF_vars(Sync \/ SyncFails)
    /\ []<>(pc # "process")
    /\ WF_vars(Commit \/ CommitFails \/ SkipCommit)
    /\ WF_vars(Caught)
    /\ WF_vars(Break \/ Sleep)

MainSpec == MainInit /\ [][MainNext]_vars /\ MainFairness

\* While the program sleeps, the user completes an item that is not
\* recurring and is the child of an item with the serial marker; the next
\* api.sync() fetches it as completed.
UserCompletes ==
    /\ pc = "sync"
    /\ FirstProcessor
    /\ runs >= 2
    /\ \E i \in DOMAIN store :
           /\ ~store[i].date_completed
           /\ ~is_recurring(store[i])
           /\ store[i].parent_id # 0
           /\ endswith(store[store[i].parent_id].content, serial_suffix)
           /\ store' = [store EXCEPT ![i] = CloseItem(@)]
           /\ closed' = closed \cup { i }
    /\ UNCHANGED <<args, projects, items, queue, pc, processor, rerun, runs,
                   carried, walk, raised, aborted, fncall, owed>>

\* The program on the forests of a serial item, with the user completing
\* items between the iterations
ProgressInit ==
    /\ Init
    /\ \E f \in ProgressForests :
           /\ projects = f.projects
           /\ store = f.store

ProgressNext ==
    \/ Next
    \/ UserCompletes

ProgressSpec == ProgressInit /\ [][ProgressNext]_vars

(***************************************************************************)
(* Vocabulary of the properties                                            *)
(***************************************************************************)
\* The modifier kind the running engine reads from a content
kind_of(content) ==
    IF engine = "v1" THEN parse_item_metadata(content).type
    ELSE LET ps == set_parallel_or_serial(content)
         IN  IF ps.is_parallel THEN "parallel"
             ELSE IF ps.is_serial THEN "serial"
             ELSE "none"

Children(i) == { c \in DOMAIN store : store[c].parent_id = i }

ActiveChildren(i) == { c \in Children(i) : ~store[c].date_completed }

\* The first of a non-empty set of siblings, by sibling order
FirstOf(S) ==
    CHOOSE c \in S : \A d \in S : store[c].child_order <= store[d].child_order

\* The tree walk of the current iteration has completed and nothing of it is
\* committed yet: store is what the walk started from, items what it left.
WalkDone == pc = "queued" /\ FirstProcessor

CommitEnabled == execute \/ execute1

\* The positions on the queue of the commands staged in the current run
StagedNow == (carried + 1)..Len(queue)

Activated(c) ==
    /\ ~IsNone(items[c].due)
    /\ nodate_label_id \notin items[c].labels

Taken(c) ==
    /\ IsNone(items[c].due)
    /\ nodate_label_id \in items[c].labels

HasNextLabel(c) == store[c].labels \cap next_label_ids # {}

DueRecurring(c) == is_recurring(store[c]) /\ is_due(store[c])

(***************************************************************************)
(* C1  Idempotence                                                         *)
(***************************************************************************)
\* A later iteration of the loop has walked the tree, every earlier run
\* having run to its end without an exception and with commits enabled.
SecondRun == pc = "queued" /\ runs >= 2 /\ ~raised /\ CommitEnabled

\* C1 as claimed: a second run on the store state the first run left, with
\* no external change and the same now, stages no mutation at all.
C1_Idempotence_Claimed == SecondRun => Len(queue) = 0

\* C1 amended: the second run stages nothing but the content update of the
\* items whose content starts with the last-run constant.
C1_Idempotence ==
    SecondRun =>
        \A k \in 1..Len(queue) :
            /\ queue[k].type = "update_content"
            /\ startswith(store[queue[k].id].content, LAST_RUN_CONST)

\* A second run that staged nothing on a store in which the first run had
\* assigned a due date and attached the blocking label.
C1_Witness ==
    /\ SecondRun
    /\ Len(queue) = 0
    /\ \E i \in DOMAIN store :
           ~IsNone(store[i].due) /\ Get(store[i].due).string = today
    /\ \E i \in DOMAIN store : nodate_label_id \in store[i].labels

(***************************************************************************)
(* C2  Leaf activation under a serial parent                               *)
(***************************************************************************)
\* p was walked, carries the serial modifier and has exactly three children,
\* all of them non-completed leaves without a due date.
SerialWithThreeLeaves(p) ==
    /\ walk[p].visited
    /\ kind_of(store[p].content) = "serial"
    /\ Cardinality(Children(p)) = 3
    /\ \A c \in Children(p) :
          /\ ~store[c].date_completed
          /\ Children(c) = {}
          /\ IsNone(store[c].due)

FirstActivatedRestTaken(p) ==
    LET A == FirstOf(Children(p))
    IN  /\ Activated(A)
        /\ \A c \in Children(p) \ { A } : Taken(c)

\* C2 as claimed: under every serial parent with three such leaves, whatever
\* the parent inherits, the first leaf is activated and the other two taken.
C2_SerialLeaves_Claimed ==
    WalkDone =>
        \A p \in DOMAIN store :
            SerialWithThreeLeaves(p) => FirstActivatedRestTaken(p)

\* C2 amended: this holds when the parent's own tree is not taken (v1: the
\* parent inherits parallel, or serial as the first sibling, or is a due
\* recurring item; v2: the parent is not a suppressed, non-first child of a
\* serial node) and, in v2, the first leaf carries no next-eligible label.
C2_SerialLeaves ==
    WalkDone =>
        \A p \in DOMAIN store :
            ( /\ SerialWithThreeLeaves(p)
              /\ walk[p].tree # "take"
              /\ (engine = "v2" => ~HasNextLabel(FirstOf(Children(p)))) )
            => FirstActivatedRestTaken(p)

\* A serial parent whose first leaf lost the blocking label it had and got a
\* due date, while the other two leaves were taken.
C2_Witness ==
    /\ WalkDone
    /\ \E p \in DOMAIN store :
           /\ SerialWithThreeLeaves(p)
           /\ walk[p].tree # "take"
           /\ nodate_label_id \in store[FirstOf(Children(p))].labels
           /\ FirstActivatedRestTaken(p)

(***************************************************************************)
(* C3  Serial exclusivity                                                  *)
(***************************************************************************)
SerialNode(s) == walk[s].visited /\ kind_of(store[s].content) = "serial"

\* The non-completed children of s other than the first of them
NonFirstActive(s) ==
    IF ActiveChildren(s) = {} THEN {}
    ELSE ActiveChildren(s) \ { FirstOf(ActiveChildren(s)) }

\* C3 as claimed: every non-first active child of a serial node is taken,
\* whatever its modifier, children, due date or recurrence.
C3_SerialExclusivity_Claimed ==
    WalkDone =>
        \A s \in DOMAIN store :
            SerialNode(s) => \A c \in NonFirstActive(s) : walk[c].mode = "take"

\* C3 amended: every non-first active child of a serial node is taken, except
\* that v1 activates such a child when it is a due recurring item without
\* children.
C3_SerialExclusivity ==
    WalkDone =>
        \A s \in DOMAIN store :
            SerialNode(s) =>
                \A c \in NonFirstActive(s) :
                    \/ walk[c].mode = "take"
                    \/ /\ engine = "v1"
                       /\ DueRecurring(c)
                       /\ Children(c) = {}
                       /\ walk[c].mode = "activate"

\* A serial node whose tree is activated: its first active child is
\* activated, a later one is taken.
C3_Witness ==
    /\ WalkDone
    /\ \E s \in DOMAIN store :
           /\ SerialNode(s)
           /\ walk[s].tree = "activate"
           /\ NonFirstActive(s) # {}
           /\ walk[FirstOf(ActiveChildren(s))].mode = "activate"
           /\ \E c \in NonFirstActive(s) : walk[c].mode = "take"

(***************************************************************************)
(* C4  Parallel activation                                                 *)
(***************************************************************************)
ParallelNode(p) == walk[p].visited /\ kind_of(store[p].content) = "parallel"

HasStaged(type, i) ==
    \E k \in StagedNow : queue[k].type = type /\ queue[k].id = i

\* The completed children of r, and the completed children of those, ...
RECURSIVE CompletedBelow(_)
CompletedBelow(r) ==
    LET cs == { c \in Children(r) : store[c].date_completed }
    IN  cs \cup UNION { CompletedBelow(c) : c \in cs }

\* r is a completed recurring item with modifier kind none whose due date is
\* at or before now, in a project that is not archived.
RecurringCompletedDue(r) ==
    /\ store[r].date_completed
    /\ DueRecurring(r)
    /\ ~parse_due_raises(store[r])
    /\ kind_of(store[r].content) = "none"
    /\ ~projects[store[r].project_id].is_archived

\* r is uncompleted, so is every completed descendant of r, and r is closed
\* after its uncompletion.
Reactivated(r) ==
    /\ HasStaged("item_uncomplete", r)
    /\ \A d \in CompletedBelow(r) : HasStaged("item_uncomplete", d)
    /\ \E k \in StagedNow : \E j \in StagedNow :
          /\ k < j
          /\ queue[k].type = "item_uncomplete" /\ queue[k].id = r
          /\ queue[j].type = "item_close" /\ queue[j].id = r

\* C5 as claimed: the run uncompletes every completed due recurring item of
\* kind none and all its completed descendants, and closes the item again.
C5_RecurringReactivation_Claimed ==
    WalkDone =>
        \A r \in DOMAIN store : RecurringCompletedDue(r) => Reactivated(r)

(***************************************************************************)
(* C6  Commit gating                                                       *)
(***************************************************************************)
\* The step calls api.commit(): the store changes, the queue is flushed, or
\* the call raises.
CommitInvoked ==
    /\ pc = "queued"
    /\ (store' # store \/ Len(queue') < Len(queue) \/ pc' = "caught")

\* C6: at the commit decision of a run, commit() is invoked exactly when the
\* queue is non-empty and an execute flag is set; without an execute flag no
\* step ever changes the store.
C6_CommitGating ==
    [][ /\ pc = "queued" =>
              (CommitInvoked <=> (Len(queue) > 0 /\ (execute \/ execute1)))
        /\ ~(execute \/ execute1) => store' = store ]_vars

\* A dry run that left its staged mutations uncommitted.
C6_Witness ==
    /\ pc = "end_run"
    /\ ~raised
    /\ ~execute /\ ~execute1
    /\ Len(queue) > 0

(***************************************************************************)
(* C7  Staged mutations belong to one run                                  *)
(***************************************************************************)
\* C7 as claimed: what a run commits is what that run staged; nothing on the
\* queue at a commit was staged before the run began.
C7_StagedInOneRun_Claimed ==
    (pc = "queued" /\ Len(queue) > 0 /\ (execute \/ execute1)) => carried = 0

(***************************************************************************)
(* C8  Run-level error handling                                            *)
(***************************************************************************)
\* What C8 says of every step whichever run it belongs to: a caught exception
\* ends its run with the store and the queue as they are; a run that raised
\* changes the store no more; every walk starts from a fresh fetch; in
\* periodic mode the process does not terminate once an exception was caught.
CaughtAtRunBoundary ==
    /\ pc = "caught" => (pc' = "end_run" /\ store' = store /\ queue' = queue)
    /\ aborted => store' = store
    /\ pc' = "process" => (pc = "sync" /\ items' = store)
    /\ (raised' /\ periodical) => pc' # "done"

\* C8 as claimed: besides, in periodic mode the run that follows a run that
\* raised starts after the sleep between two iterations of the loop.
C8_RunLevelErrorHandling_Claimed ==
    [][ /\ CaughtAtRunBoundary
        /\ (aborted /\ periodical /\ pc = "end_run") =>
              (pc' = "sync" /\ runs' = runs + 1) ]_vars

\* C8 amended: the run that follows a run that raised starts after the sleep,
\* except that v1's LastRunUpdaterProcessor run follows its OldStyleProcessor
\* run at once, in the same iteration of the loop.
C8_RunLevelErrorHandling ==
    [][ /\ CaughtAtRunBoundary
        /\ (aborted /\ periodical /\ pc = "end_run" /\ LastProcessor) =>
              (pc' = "sync" /\ runs' = runs + 1)
        /\ (aborted /\ pc = "end_run" /\ ~LastProcessor) =>
              (pc' = "sync" /\ runs' = runs
                 /\ processor' = "LastRunUpdaterProcessor") ]_vars

\* In periodic mode, the iteration after one whose last run raised has
\* fetched the store again.
C8_Witness ==
    /\ raised
    /\ ~aborted
    /\ periodical
    /\ runs = 2
    /\ pc = "process"
    /\ items = store

(***************************************************************************)
(* C9  Label/due-date exclusion on owned nodes                             *)
(***************************************************************************)
HasLabelAndDue(item) ==
    nodate_label_id \in item.labels /\ ~IsNone(item.due)

NoOpNode(i) ==
    /\ walk[i].visited
    /\ walk[i].inherits = "none"
    /\ kind_of(store[i].content) = "none"
    /\ Children(i) = {}
    /\ ~is_recurring(store[i])

\* C10 as claimed: no pass of the run stages any mutation for such a node.
C10_NoOpSafety_Claimed ==
    pc = "queued" =>
        \A i \in DOMAIN store :
            NoOpNode(i) => \A k \in StagedNow : queue[k].id # i

\* C10 amended: the only mutation a run stages for such a node is the content
\* update of a node whose content starts with the last-run constant.
C10_NoOpSafety ==
    pc = "queued" =>
        \A i \in DOMAIN store :
            NoOpNode(i) =>
                \A k \in StagedNow :
                    queue[k].id = i =>
                        /\ queue[k].type = "update_content"
                        /\ startswith(store[i].content, LAST_RUN_CONST)

\* A run that staged mutations for other items and none for a no-op node
\* whose content is ordinary.
C10_Witness ==
    /\ pc = "queued"
    /\ FirstProcessor
    /\ StagedNow # {}
    /\ \E i \in DOMAIN store :
           /\ NoOpNode(i)
           /\ ~startswith(store[i].content, LAST_RUN_CONST)
           /\ \A k \in StagedNow : queue[k].id # i

(***************************************************************************)
(* C11  Next-eligible suppression                                          *)
(***************************************************************************)
\* i is a childless node in activate disposition that carried a next-eligible
\* label and no due date when the run began.
NextEligibleLeaf(i) ==
    /\ walk[i].visited
    /\ walk[i].mode = "activate"
    /\ Children(i) = {}
    /\ HasNextLabel(i)
    /\ IsNone(store[i].due)

\* The run assigned no due date to i and i is without the blocking label.
NoDueLabelRemoved(i) ==
    /\ ~HasStaged("update_due", i)
    /\ IsNone(items[i].due)
    /\ nodate_label_id \notin items[i].labels

\* C11 as claimed: such a leaf is not assigned a due date by the run, and its
\* blocking label is removed if present.
C11_NextEligibleSuppression_Claimed ==
    WalkDone => \A i \in DOMAIN store : NextEligibleLeaf(i) => NoDueLabelRemoved(i)

\* C11 amended: this is so in v2; v1 knows no next-eligible labels and assigns
\* the due date to such a leaf, removing its blocking label as well.
C11_NextEligibleSuppression ==
    WalkDone =>
        \A i \in DOMAIN store :
            NextEligibleLeaf(i) =>
                IF engine = "v2" THEN NoDueLabelRemoved(i)
                ELSE /\ HasStaged("update_due", i)
                     /\ ~IsNone(items[i].due)
                     /\ nodate_label_id \notin items[i].labels

\* v2 activated a leaf that carried a next-eligible label and the blocking
\* label: it lost the blocking label and got no due date.
C11_Witness ==
    /\ WalkDone
    /\ engine = "v2"
    /\ \E i \in DOMAIN store :
           /\ NextEligibleLeaf(i)
           /\ nodate_label_id \in store[i].labels
           /\ HasStaged("update_labels", i)
           /\ NoDueLabelRemoved(i)

(***************************************************************************)
(* C12  Delay token respected                                              *)
(***************************************************************************)
\* The delay token the running engine parses from a content, or None
delay_of(content) ==
    IF engine = "v1" THEN parse_item_metadata(content).delay
    ELSE set_parallel_or_serial(content).delay

\* The positions of the due dates the current run assigned
DueAssignments ==
    { k \in StagedNow : queue[k].type = "update_due" /\ ~IsNone(queue[k].arg) }

\* C12: every due date a run assigns goes to an activated node, and its value
\* is the node's parsed delay token if there is one and "today" otherwise.
C12_DelayTokenRespected ==
    WalkDone =>
        \A k \in DueAssignments :
            LET i == queue[k].id
                d == delay_of(store[i].content)
            IN  /\ walk[i].mode = "activate"
                /\ Get(queue[k].arg).string = IF IsNone(d) THEN today ELSE Get(d)

\* A run that assigned a delay token to a node whose content ends with a
\* marker after the annotation, and "today" to a node without an annotation.
C12_Witness ==
    /\ WalkDone
    /\ \E k \in DueAssignments :
           /\ store[queue[k].id].content = DelayedParallel
           /\ Get(queue[k].arg).string = << "d" >>
    /\ \E k \in DueAssignments :
           /\ IsNone(delay_of(store[queue[k].id].content))
           /\ Get(queue[k].arg).string = today

(***************************************************************************)
(* C13  Archived projects are skipped                                      *)
(***************************************************************************)
InArchivedProject(i) == projects[store[i].project_id].is_archived

\* C13: no pass of a run stages a mutation for a task of an archived project.
C13_ArchivedSkipped ==
    pc = "queued" => \A k \in StagedNow : ~InArchivedProject(queue[k].id)

\* A walk that staged mutations while a project with the serial marker, whose
\* tasks it would have owned, is archived.
C13_Witness ==
    /\ WalkDone
    /\ StagedNow # {}
    /\ \E i \in DOMAIN store :
           /\ InArchivedProject(i)
           /\ get_project_type(projects[store[i].project_id].name) = "serial"
           /\ store[i].parent_id = 0
           /\ ~store[i].date_completed
           /\ ~walk[i].visited

(***************************************************************************)
(* C17  is_first is relative to the active siblings                        *)
(***************************************************************************)
\* The non-completed tasks with the parent and the project of c
ActiveSiblings(c) ==
    { d \in DOMAIN store :
        /\ store[d].project_id = store[c].project_id
        /\ store[d].parent_id = store[c].parent_id
        /\ ~store[d].date_completed }

\* c is the non-completed task with the smallest sibling order among the
\* children of its parent
FirstActiveSibling(c) ==
    /\ ~store[c].date_completed
    /\ c = FirstOf(ActiveSiblings(c))

\* C17 as claimed: a walked node has is_first exactly when it is the first of
\* its parent's non-completed children, also below a due recurring parent
\* whose completed children are walked.
C17_IsFirstAmongActive_Claimed ==
    WalkDone =>
        \A c \in DOMAIN store :
            walk[c].visited => (walk[c].is_first <=> FirstActiveSibling(c))

(***************************************************************************)
(* C19  Tagged recurring reactivation                                      *)
(***************************************************************************)
\* r was walked, is a due recurring node with the serial or parallel modifier
\* and has a completed child
TaggedDueRecurring(r) ==
    /\ walk[r].visited
    /\ DueRecurring(r)
    /\ kind_of(store[r].content) \in { "serial", "parallel" }
    /\ \E c \in Children(r) : store[c].date_completed

\* The step is a completed tree walk
WalkStep == pc = "process" /\ pc' = "queued" /\ FirstProcessor

\* C19 as claimed: the walk that processes such a node closes it, and each of
\* its completed children is uncompleted by that walk or, being owed by it,
\* by the walk of the next run.
C19_TaggedRecurringReactivation_Claimed ==
    [][ WalkStep =>
          /\ \A r \in DOMAIN store :
                 TaggedDueRecurring(r)' => HasStaged("item_close", r)'
          /\ \A c \in owed : HasStaged("item_uncomplete", c)' ]_vars

(***************************************************************************)
(* C20  Completed nodes are outside the walk                               *)
(***************************************************************************)
\* n is completed and its parent is no due recurring node that the walk
\* processed
CompletedOutsideWalk(n) ==
    /\ store[n].date_completed
    /\ ~( /\ store[n].parent_id # 0
          /\ walk[store[n].parent_id].visited
          /\ DueRecurring(store[n].parent_id) )

\* i and the nodes above it
RECURSIVE SelfAndAncestors(_)
SelfAndAncestors(i) ==
    IF store[i].parent_id = 0 THEN { i }
    ELSE { i } \cup SelfAndAncestors(store[i].parent_id)

\* C20: a completed node whose parent is not a due recurring node processed
\* in the run is not processed, and neither it nor any node of its subtree
\* has a mutation staged by any pass of the run.
C20_CompletedOutsideWalk ==
    pc = "queued" =>
        \A i \in DOMAIN store :
            (\E n \in SelfAndAncestors(i) : CompletedOutsideWalk(n)) =>
                /\ FirstProcessor => ~walk[i].visited
                /\ \A k \in StagedNow : queue[k].id # i

\* A walk that uncompleted a completed child of a due recurring node and
\* passed by a completed node elsewhere, with its non-completed child.
C20_Witness ==
    /\ WalkDone
    /\ \E c \in DOMAIN store :
           /\ store[c].date_completed
           /\ walk[c].visited
           /\ HasStaged("item_uncomplete", c)
    /\ \E n \in DOMAIN store :
           /\ CompletedOutsideWalk(n)
           /\ \E d \in Children(n) : ~store[d].date_completed /\ ~walk[d].visited

(***************************************************************************)
(* Functions of the program called on their own: the inputs are drawn in   *)
(* the initial state, one step calls the function and records what it      *)
(* returned.                                                               *)
(***************************************************************************)
\* Length of the contents the parsing functions are called on
MaxLen == 4

\* The tokens of those contents
Tokens == { "a", " ", "(-)", "(=)", "{", "}" }

RECURSIVE Strings(_)
Strings(n) ==
    IF n = 0 THEN { << >> }
    ELSE LET shorter == Strings(n - 1)
         IN  shorter \cup
             { Append(str, t) : str \in { x \in shorter : Len(x) = n - 1 },
                                t \in Tokens }

ProcessingModes == { "serial", "parallel", "inactive", "none" }

Kinds == { "none", "serial", "parallel" }

\* process_item's decision (v1) for one combination of what it depends on
DecisionCalls ==
    { [fn                  |-> "process_item",
       processing_mode     |-> pm,
       is_first            |-> first,
       is_active_recurring |-> rec,
       type                |-> kind,
       is_considered_leaf  |-> leaf] :
        pm \in ProcessingModes, first \in BOOLEAN, rec \in BOOLEAN,
        kind \in Kinds, leaf \in BOOLEAN }

Decide ==
    /\ pc = "call"
    /\ call.fn = "process_item"
    /\ LET tree == tree_processing_mode(call.processing_mode, call.is_first,
                       call.is_active_recurring, call.type)
       IN  ret' = [done       |-> TRUE,
                   tree_mode  |-> tree,
                   item_mode  |-> item_processing_mode(tree,
                                      call.is_considered_leaf),
                   child_mode |-> child_processing_mode(tree, call.type)]
    /\ pc' = "return"
    /\ UNCHANGED <<args, projects, store, items, queue, processor, rerun, runs,
                   carried, walk, raised, aborted, call, owed, closed>>

\* parse_item_metadata (v1) on a content
ParseCalls ==
    { [fn |-> "parse_item_metadata", content |-> str] : str \in Strings(MaxLen) }

ParseItemMetadata ==
    /\ pc = "call"
    /\ call.fn = "parse_item_metadata"
    /\ LET metadata == parse_item_metadata(call.content)
       IN  ret' = [done  |-> TRUE,
                   type  |-> metadata.type,
                   delay |-> metadata.delay]
    /\ pc' = "return"
    /\ UNCHANGED <<args, projects, store, items, queue, processor, rerun, runs,
                   carried, walk, raised, aborted, call, owed, closed>>

\* Props(item['content']) and set_parallel_or_serial (v2) on a content
PropsCalls ==
    { [fn |-> "set_parallel_or_serial", content |-> str] :
        str \in Strings(MaxLen) }

SetParallelOrSerial ==
    /\ pc = "call"
    /\ call.fn = "set_parallel_or_serial"
    /\ LET props == set_parallel_or_serial(call.content)
       IN  ret' = [done  |-> TRUE,
                   type  |-> IF props.is_parallel THEN "parallel"
                             ELSE IF props.is_serial THEN "serial"
                             ELSE "none",
                   delay |-> props.delay]
    /\ pc' = "return"
    /\ UNCHANGED <<args, projects, store, items, queue, processor, rerun, runs,
                   carried, walk, raised, aborted, call, owed, closed>>

\* has_delay_suffix (the same in v1 and v2) on a string
DelayCalls ==
    { [fn |-> "has_delay_suffix", str |-> str] : str \in Strings(MaxLen) }

HasDelaySuffix ==
    /\ pc = "call"
    /\ call.fn = "has_delay_suffix"
    /\ LET m == has_delay_suffix(call.str)
       IN  ret' = [done |-> TRUE, token |-> m[1], rest |-> m[2]]
    /\ pc' = "return"
    /\ UNCHANGED <<args, projects, store, items, queue, processor, rerun, runs,
                   carried, walk, raised, aborted, call, owed, closed>>

\* A content with the marker of a modifier kind at its end
Tagged(kind) ==
    IF kind = "serial" THEN Serial
    ELSE IF kind = "parallel" THEN Parallel
    ELSE Plain

\* The walk state in which the only item is one without children
LeafStart(kind, completed, due, labels) ==
    [items  |-> << Item(1, 0, 1, Tagged(kind), completed, due, labels) >>,
     queue  |-> << >>,
     failed |-> FALSE,
     rerun  |-> FALSE,
     walk   |-> << Unvisited >>]

\* What a call of process_item left for the item
Outcome(st) == [mode |-> st.walk[1].mode, queue |-> st.queue]

LeafDues == { None, Due(1, FALSE), Due(1, TRUE), Due(2, TRUE) }

LeafLabels == { {}, { nodate_label_id }, next_label_ids }

\* process_item (v1) on an item without children, once for every modifier
\* kind its content may carry, all else being the same
LeafCallsV1 ==
    { [fn              |-> "process_item_v1",
       processing_mode |-> pm,
       is_first        |-> first,
       completed       |-> completed,
       due             |-> due,
       labels          |-> labels] :
        pm \in ProcessingModes, first \in BOOLEAN, completed \in BOOLEAN,
        due \in LeafDues, labels \in LeafLabels }

ProcessLeafV1 ==
    /\ pc = "call"
    /\ call.fn = "process_item_v1"
    /\ ret' = [done |-> TRUE,
               out  |-> [kind \in Kinds |->
                           Outcome(process_item_v1(
                               LeafStart(kind, call.completed, call.due,
                                         call.labels),
                               << 1 >>, 1, call.processing_mode,
                               call.is_first))]]
    /\ pc' = "return"
    /\ UNCHANGED <<args, projects, store, items, queue, processor, rerun, runs,
                   carried, walk, raised, aborted, call, owed, closed>>

\* The props a parent can hand to process_item (v2)
ParentProps ==
    { [is_parallel           |-> kind = "parallel",
       is_serial             |-> kind = "serial",
       delay                 |-> None,
       owned                 |-> owned,
       suppress_tree_due_now |-> suppress] :
        kind \in Kinds, owned \in BOOLEAN, suppress \in BOOLEAN }

\* process_item (v2) on a non-completed item without children, once for
\* every modifier kind
LeafCallsV2 ==
    { [fn          |-> "process_item_v2",
       parentprops |-> parentprops,
       idx         |-> idx,
       due         |-> due,
       labels      |-> labels] :
        parentprops \in ParentProps, idx \in { 0, 1 },
        due \in LeafDues, labels \in LeafLabels }

ProcessLeafV2 ==
    /\ pc = "call"
    /\ call.fn = "process_item_v2"
    /\ ret' = [done |-> TRUE,
               out  |-> [kind \in Kinds |->
                           Outcome(process_item_v2(
                               LeafStart(kind, FALSE, call.due, call.labels),
                               << 1 >>, call.parentprops, 1, call.idx))]]
    /\ pc' = "return"
    /\ UNCHANGED <<args, projects, store, items, queue, processor, rerun, runs,
                   carried, walk, raised, aborted, call, owed, closed>>

Calls ==
    DecisionCalls \cup ParseCalls \cup PropsCalls \cup DelayCalls
        \cup LeafCallsV1 \cup LeafCallsV2

\* The program a called function belongs to
EnginesOf(c) ==
    IF c.fn \in { "process_item", "parse_item_metadata", "process_item_v1" }
    THEN { "v1" }
    ELSE IF c.fn \in { "set_parallel_or_serial", "process_item_v2" }
    THEN { "v2" }
    ELSE { "v1", "v2" }

CallInit ==
    /\ call \in Calls
    /\ ret = [done |-> FALSE]
    /\ pc = "call"
    /\ engine \in EnginesOf(call)
    /\ execute = FALSE
    /\ execute1 = FALSE
    /\ periodical = FALSE
    /\ projects = << >>
    /\ store = << >>
    /\ items = << >>
    /\ queue = << >>
    /\ processor = "none"
    /\ rerun = FALSE
    /\ runs = 1
    /\ carried = 0
    /\ walk = << >>
    /\ raised = FALSE
    /\ aborted = FALSE
    /\ owed = {}
    /\ closed = {}

CallNext ==
    \/ Decide
    \/ ParseItemMetadata
    \/ SetParallelOrSerial
    \/ HasDelaySuffix
    \/ ProcessLeafV1
    \/ ProcessLeafV2

CallSpec == CallInit /\ [][CallNext]_vars

Returned(f) == pc = "return" /\ call.fn = f

(***************************************************************************)
(* C14: the decision of process_item against the table of steps 4 to 8     *)
(***************************************************************************)
\* Step 4 of the table
fix_recurring_task(is_active_recurring, type) ==
    is_active_recurring /\ type = "none"

\* Step 7 of the table
table_item_mode(tree_mode, is_considered_leaf, fix) ==
    IF tree_mode = "activate" /\ (is_considered_leaf \/ fix) THEN "activate"
    ELSE IF tree_mode \in { "activate", "take" } THEN "take"
    ELSE "none"

\* Step 8 of the table
table_child_mode(tree_mode, type, fix) ==
    IF fix THEN "inactive"
    ELSE IF type = "none" THEN "none"
    ELSE IF tree_mode = "take" THEN "inactive"
    ELSE type

\* Step 6 of the table
table_tree_mode(processing_mode, is_first, is_active_recurring, type) ==
    IF \/ (processing_mode = "serial" /\ is_first)
       \/ processing_mode = "parallel"
       \/ is_active_recurring
    THEN "activate"
    ELSE IF processing_mode \in { "serial", "inactive" } \/ type # "none"
    THEN "take"
    ELSE "none"

\* C14: for every inherited processing_mode, is_first, is_active_recurring,
\* modifier kind and child set (empty or not), the tree_mode, item_mode and
\* child_mode computed by process_item are those of steps 4 to 8 of the
\* table; a due recurring node without a marker gets item_mode activate
\* even when it has children and passes child_mode inactive.
C14_DecisionTable_Claimed ==
    Returned("process_item") =>
        LET fix  == fix_recurring_task(call.is_active_recurring, call.type)
            tree == table_tree_mode(call.processing_mode, call.is_first,
                                    call.is_active_recurring, call.type)
        IN  /\ ret.tree_mode = tree
            /\ ret.item_mode = table_item_mode(tree, call.is_considered_leaf, fix)
            /\ ret.child_mode = table_child_mode(tree, call.type, fix)

(***************************************************************************)
(* C15: the modifier kind of a content                                     *)
(***************************************************************************)
\* A {token} that is the trailing annotation of the string: the string ends
\* with "}" and the annotation opens at its last "{"
trailing_annotation(str) ==
    IF Len(str) > 0 /\ str[Len(str)] = "}" /\ OpenBraces(str) # {}
    THEN LET i == SetMax(OpenBraces(str))
         IN  << Some(SubSeq(str, i + 1, Len(str) - 1)), SubSeq(str, 1, i - 1) >>
    ELSE << None, str >>

\* The parser's loop as specified: every round works on the
\* whitespace-trimmed string, strips a marker or a trailing annotation from
\* its right, and records the kind of the marker it stripped
RECURSIVE specified_kind(_, _)
specified_kind(str, kind) ==
    LET name == strip(str)
        par  == has_suffix(name, parallel_suffix)
        ser  == has_suffix(name, serial_suffix)
        del  == trailing_annotation(name)
    IN  IF par[1] THEN specified_kind(par[2], "parallel")
        ELSE IF ser[1] THEN specified_kind(ser[2], "serial")
        ELSE IF ~IsNone(del[1]) THEN specified_kind(del[2], kind)
        ELSE kind

ParsedKind == Returned("parse_item_metadata") \/ Returned("set_parallel_or_serial")

\* C15: the modifier kind returned for a content is that of the last marker
\* met while stripping markers and {token} annotations from the right of the
\* whitespace-trimmed working string, whatever the order of a marker and a
\* delay annotation and whatever whitespace stands between them; it is none
\* only when the loop meets no marker.
C15_ModifierKindParsing_Claimed ==
    ParsedKind => ret.type = specified_kind(call.content, "none")

(***************************************************************************)
(* C16: the delay annotation is the trailing one                           *)
(***************************************************************************)
\* C16: a {token} is recorded as the delay token only when it is the
\* trailing annotation of the working string, and stripping it removes the
\* annotation alone: the string is what is left, followed by the braces
\* around the token, with no text after the closing brace.
C16_DelayAnchoredAtEnd_Claimed ==
    (Returned("has_delay_suffix") /\ ~IsNone(ret.token)) =>
        call.str = ret.rest \o << "{" >> \o ret.token[1] \o << "}" >>

(***************************************************************************)
(* C18: items without children, whatever their modifier kind               *)
(***************************************************************************)
LeafProcessed == Returned("process_item_v1") \/ Returned("process_item_v2")

\* C18: for an item without children, with the inherited mode, is_first,
\* completion, due date and labels held fixed, the disposition it receives
\* and the mutations staged for it are the same whether its content carries
\* no marker, the serial marker or the parallel marker.
C18_ChildlessLeaves_Claimed ==
    LeafProcessed =>
        /\ ret.out["serial"] = ret.out["none"]
        /\ ret.out["parallel"] = ret.out["none"]

\* C18 (amended): the serial and the parallel marker always give the same
\* disposition and mutations; they give those of the unmarked item whenever
\* the unmarked item gets a disposition at all.  An unmarked item that is
\* left alone is taken when it carries a marker.
C18_ChildlessLeaves ==
    LeafProcessed =>
        /\ ret.out["serial"] = ret.out["parallel"]
        /\ ret.out["none"].mode # "none" => ret.out["serial"] = ret.out["none"]
        /\ ret.out["none"].mode = "none" =>
              /\ ret.out["none"].queue = << >>
              /\ ret.out["serial"].mode = "take"

\* An unmarked item without children that is left alone while the same item
\* with a marker is taken and gets the no-date label
C18_Witness ==
    /\ LeafProcessed
    /\ ret.out["none"].mode = "none"
    /\ ret.out["parallel"].mode = "take"
    /\ ret.out["parallel"].queue # << >>

(***************************************************************************)
(* C21: an existing due date is never overwritten                          *)
(***************************************************************************)
\* i is a non-completed item with a due date that the walk activated
ActivatedWithDue(i) ==
    /\ walk[i].visited
    /\ walk[i].mode = "activate"
    /\ ~store[i].date_completed
    /\ store[i].checked = 0
    /\ ~IsNone(store[i].due)

\* C21: when a non-completed node that already has a due date is processed
\* with the activate disposition, the run leaves its due date as it was and
\* stages no due-date update for it, whether or not its content carries a
\* delay token.
C21_DueNeverOverwritten ==
    WalkDone =>
        \A i \in DOMAIN store :
            ActivatedWithDue(i) =>
                /\ items[i].due = store[i].due
                /\ ~HasStaged("update_due", i)

\* An activated item with a due date and a delay token in its content, from
\* which the run removed the blocking label
C21_Witness ==
    /\ WalkDone
    /\ \E i \in DOMAIN store :
           /\ ActivatedWithDue(i)
           /\ ~IsNone(delay_of(store[i].content))
           /\ HasStaged("update_labels", i)
           /\ items[i].due = store[i].due

(***************************************************************************)
(* C25: only the blocking label is ever touched                            *)
(***************************************************************************)
\* The labels of an item other than the blocking label
OtherLabels(item) == item.labels \ { nodate_label_id }

\* C25: for every node and every run, the node's labels other than the
\* blocking label are the same before and after the run: no step of the
\* program changes them in the store, and the client's copy and every staged
\* label update agree with the store on them.
C25_OnlyBlockingLabelTouched ==
    [][ \A i \in DOMAIN store :
            /\ OtherLabels(store'[i]) = OtherLabels(store[i])
            /\ OtherLabels(items'[i]) = OtherLabels(store[i])
            /\ \A k \in 1..Len(queue') :
                   (queue'[k].type = "update_labels" /\ queue'[k].id = i) =>
                       queue'[k].arg \ { nodate_label_id } = OtherLabels(store[i])
      ]_vars

\* A run removed the blocking label from an item that also carries a
\* next-eligible label, and left that label on it
C25_Witness ==
    /\ WalkDone
    /\ \E i \in DOMAIN store :
           /\ HasNextLabel(i)
           /\ HasStaged("update_labels", i)
           /\ items[i].labels = store[i].labels \ { nodate_label_id }
           /\ items[i].labels \cap next_label_ids # {}

(***************************************************************************)
(* C23: suppression covers the whole subtree (v2)                          *)
(***************************************************************************)
\* i and the items below it, at any depth
RECURSIVE Subtree(_)
Subtree(i) ==
    { i } \cup UNION { Subtree(c) : c \in Children(i) }

\* The run activated d, assigned it a due date or removed its blocking label
TouchedAsActive(d) ==
    \/ walk[d].mode = "activate"
    \/ HasStaged("update_due", d)
    \/ /\ nodate_label_id \in store[d].labels
       /\ nodate_label_id \notin items[d].labels

\* C23: in the v2 engine no node at any depth in the subtree of a non-first
\* active child of a serial node is activated in a run: none gets a due date
\* assigned or its blocking label removed, even when descendants in between
\* carry serial or parallel modifiers of their own.
C23_SuppressionCoversSubtree_Claimed ==
    (WalkDone /\ engine = "v2") =>
        \A s \in DOMAIN store :
            SerialNode(s) =>
                \A c \in NonFirstActive(s) :
                    \A d \in Subtree(c) : ~TouchedAsActive(d)

(***************************************************************************)
(* C24: main without a periodic interval (v2)                              *)
(***************************************************************************)
NonPeriodicV2 == engine = "v2" /\ ~periodical

\* C24: when no periodic interval is configured, main (v2) performs exactly
\* one cycle of sync, processing of all projects and conditional commit, and
\* then terminates, whether the cycle committed changes, found nothing to
\* commit or raised an exception: no step takes it back to the sync (the
\* rerun flag never causes a second cycle), and it reaches its end.
C24_NonPeriodicTermination ==
    /\ [][ NonPeriodicV2 => ~(pc # "sync" /\ pc' = "sync") ]_vars
    /\ [](NonPeriodicV2 => ~rerun)
    /\ (NonPeriodicV2 ~> pc = "done")

\* main (v2) without a periodic interval has ended after a commit
C24_Witness ==
    /\ NonPeriodicV2
    /\ pc = "done"
    /\ execute
    /\ store # items
    /\ Len(queue) = 0

(***************************************************************************)
(* C22: serial progression across runs                                     *)
(***************************************************************************)
\* The children of s that were not completed when the previous run ended
WereActive(s) == ActiveChildren(s) \cup (closed \cap Children(s))

\* s is a serial node of which the previous run left the first active child
\* activated and the later ones taken, and the user then completed that
\* first child and no other
Progressed(s) ==
    /\ SerialNode(s)
    /\ closed \cap Children(s) # {}
    /\ closed \cap Children(s) = { FirstOf(WereActive(s)) }
    /\ ~IsNone(store[FirstOf(WereActive(s))].due)
    /\ nodate_label_id \notin store[FirstOf(WereActive(s))].labels
    /\ ActiveChildren(s) # {}
    /\ \A c \in ActiveChildren(s) :
          /\ IsNone(store[c].due)
          /\ nodate_label_id \in store[c].labels

NextRun == WalkDone /\ runs >= 2

====
